---------------------------- MODULE Spec2Model ----------------------------
(***************************************************************************)
(* llm9p: the session store (internal/llm/session.go) and the synthetic    *)
(* file tree over it (internal/llmfs).                                     *)
(*                                                                         *)
(* Byte strings are sequences of one-character strings.  A critical        *)
(* section that takes one lock is one action (acquire, body, release); the *)
(* lock words are state, so an action is enabled only when the lock it     *)
(* takes is available.  Close, which nests the session lock inside the     *)
(* registry lock, is three actions.  Session objects live in `heap` and    *)
(* are addressed by their allocation index, as the *Session pointers of    *)
(* the program are: an object removed from the registry stays reachable    *)
(* through the pointers that callers still hold.                           *)
(***************************************************************************)
EXTENDS Integers, Sequences, FiniteSets, TLC

(***************************************************************************)
(* Bounds of the model.                                                    *)
(***************************************************************************)
NumProcs == 2       \* concurrent callers
MaxOps == 3         \* operations the callers invoke in one behaviour
MaxStartID == 10    \* sessions created before a sequential read of `new` begins
MaxCap == 2         \* capacity of the buffer of a sequential read of `new`

Procs == 1..NumProcs

(***************************************************************************)
(* Byte strings.                                                           *)
(***************************************************************************)
NL == "\n"
Digits == <<"0", "1", "2", "3", "4", "5", "6", "7", "8", "9">>

\* unicode.IsSpace on the bytes the model writes
IsSpace(c) == c \in {" ", "\n", "\t", "\r"}

RECURSIVE TrimLeft(_)
TrimLeft(s) == IF s # <<>> /\ IsSpace(Head(s)) THEN TrimLeft(Tail(s)) ELSE s

RECURSIVE TrimRight(_)
TrimRight(s) ==
    IF s # <<>> /\ IsSpace(s[Len(s)]) THEN TrimRight(SubSeq(s, 1, Len(s) - 1)) ELSE s

\* strings.TrimSpace
TrimSpaceNothing(s) == s
TrimSpace(s) == TrimRight(TrimLeft(s))

\* strings.HasSuffix(s, "\n")
HasSuffixNL(s) == s # <<>> /\ s[Len(s)] = NL

\* strings.TrimSuffix(s, "\n")
TrimSuffixNL(s) == IF HasSuffixNL(s) THEN SubSeq(s, 1, Len(s) - 1) ELSE s

RECURSIVE ItoaNat(_)
ItoaNat(n) == IF n < 10 THEN <<Digits[n + 1]>> ELSE ItoaNat(n \div 10) \o <<Digits[(n % 10) + 1]>>

\* strconv.Itoa, fmt.Sprintf("%d")
Itoa(n) == IF n < 0 THEN <<"-">> \o ItoaNat(0 - n) ELSE ItoaNat(n)

IsDigit(c) == \E d \in 1..10 : Digits[d] = c
DigitVal(c) == (CHOOSE d \in 1..10 : Digits[d] = c) - 1

RECURSIVE DigitsVal(_)
DigitsVal(s) == IF s = <<>> THEN 0 ELSE DigitsVal(SubSeq(s, 1, Len(s) - 1)) * 10 + DigitVal(s[Len(s)])

AllDigits(s) == s # <<>> /\ \A i \in 1..Len(s) : IsDigit(s[i])

\* strconv.Atoi: an optional sign and decimal digits; [ok, val]
Atoi(s) ==
    LET signed == s # <<>> /\ Head(s) \in {"+", "-"}
        body == IF signed THEN Tail(s) ELSE s
    IN  IF AllDigits(body)
        THEN [ok |-> TRUE, val |-> IF signed /\ Head(s) = "-" THEN 0 - DigitsVal(body) ELSE DigitsVal(body)]
        ELSE [ok |-> FALSE, val |-> 0]

\* copy(p, content[offset:]) into a buffer of capacity cap
CopyOut(content, offset, cap) ==
    SubSeq(content, offset + 1, IF Len(content) - offset < cap THEN Len(content) ELSE offset + cap)

(***************************************************************************)
(* Sessions.                                                               *)
(***************************************************************************)
DefaultModel == <<"c", "l", "a", "u", "d", "e", "-", "s", "o", "n", "n", "e", "t", "-", "4", "-", "2", "0", "2", "5", "0", "5", "1", "4">>

\* a float64: kind "num" with the value in thousandths, "nan" or "inf"
Float(milli) == [kind |-> "num", milli |-> milli]

DefaultSessionDefaults ==
    [Model |-> DefaultModel, Temperature |-> Float(700), SystemPrompt |-> <<>>,
     ThinkingTokens |-> 0, Prefill |-> <<>>]

NewSession(id, defaults) ==
    [ID |-> id, messages |-> <<>>, lastResponse |-> <<>>, lastTokens |-> 0, totalTokens |-> 0,
     model |-> defaults.Model, temperature |-> defaults.Temperature,
     systemPrompt |-> defaults.SystemPrompt, thinkingTokens |-> defaults.ThinkingTokens,
     prefill |-> defaults.Prefill, closed |-> FALSE]

Message(role, content) == [Role |-> role, Content |-> content]

VARIABLES
    heap,       \* the Session objects allocated so far, by address 1..Len(heap)
    sessions,   \* SessionManager.sessions: id -> address
    nextID,     \* SessionManager.nextID
    smMu,       \* SessionManager.mu: [w: holder or 0, r: set of readers]
    sessMu,     \* Session.mu of each object, by address
    pc,         \* where each caller is in its handler
    loc,        \* the handler's locals
    res,        \* the result an operation returned in the last step (NoRes: none returned)
    issued,     \* history: the ids Create has returned, in order
    retired,    \* history: the issued ids for which a Close has returned
    ops,        \* operations invoked so far
    client      \* each caller's sequential read of `new`: capacity, offset, bytes received

vars == <<heap, sessions, nextID, smMu, sessMu, pc, loc, res, issued, retired, ops, client>>

Nil == 0
FreeMu == [w |-> 0, r |-> {}]
CanRLock(mu) == mu.w = 0
CanLock(mu) == mu.w = 0 /\ mu.r = {}


(***************************************************************************)
(* Session methods (each runs under the session's own lock).               *)
(***************************************************************************)
AddMessage(s, role, content) == [s EXCEPT !.messages = Append(@, Message(role, content))]

SetLastResponse(s, response) == [s EXCEPT !.lastResponse = response]

AddTokensOverwrite(s, tokens) == [s EXCEPT !.lastTokens = tokens, !.totalTokens = tokens]
AddTokens(s, tokens) == [s EXCEPT !.lastTokens = tokens, !.totalTokens = @ + tokens]

SessionResetAll(s) == NewSession(s.ID, DefaultSessionDefaults)
SessionReset(s) ==
    [s EXCEPT !.messages = <<>>, !.lastResponse = <<>>, !.lastTokens = 0, !.totalTokens = 0]

SetModel(s, model) == [s EXCEPT !.model = model]
SetTemperature(s, temp) == [s EXCEPT !.temperature = temp]
SetSystemPrompt(s, prompt) == [s EXCEPT !.systemPrompt = prompt]
SetThinkingTokensAbs(s, tokens) == [s EXCEPT !.thinkingTokens = IF tokens < 0 THEN 0 - tokens ELSE tokens]
SetThinkingTokens(s, tokens) == [s EXCEPT !.thinkingTokens = tokens]
SetPrefill(s, prefill) == [s EXCEPT !.prefill = prefill]
MarkClosedNothing(s) == s
MarkClosed(s) == [s EXCEPT !.closed = TRUE]

(***************************************************************************)
(* SessionManager: the registry.                                           *)
(***************************************************************************)
\* id := sm.nextID
AllocIDByCount(next, reg) == Cardinality(DOMAIN reg)
AllocID(next, reg) == next

\* sm.sessions[id] = session
RegistryPutNothing(reg, id, addr) == reg
RegistryPut(reg, id, addr) == [i \in (DOMAIN reg) \cup {id} |-> IF i = id THEN addr ELSE reg[i]]

\* delete(sm.sessions, id)
RegistryKeep(reg, id) == reg
RegistryDelete(reg, id) == [i \in (DOMAIN reg) \ {id} |-> reg[i]]

\* sm.sessions[id], nil when absent
GetAny(id) == IF id \in DOMAIN sessions THEN sessions[CHOOSE i \in DOMAIN sessions : \A j \in DOMAIN sessions : i <= j] ELSE Nil
Get(id) == IF id \in DOMAIN sessions THEN sessions[id] ELSE Nil

ListSessions == DOMAIN sessions

\* the locks a caller holds
HoldsSm(p) == smMu.w = p \/ p \in smMu.r
HoldsSess(p, a) == sessMu[a].w = p \/ p \in sessMu[a].r

\* session.mu.RLock() ... session.mu.RUnlock() of Ask's snapshot
RLockBy(mu, p) == [mu EXCEPT !.r = @ \cup {p}]
AskSnapshotDeferUnlock(mu, p) == mu
AskSnapshotUnlock(mu, p) == [mu EXCEPT !.r = @ \ {p}]

(***************************************************************************)
(* The backend (external): stateless, returns a response and a token count *)
(* or fails.  A failure by deadline is one of its errors; a cancellation   *)
(* is reported only when the context it was handed is cancelled.           *)
(***************************************************************************)
ErrUnavailable == <<"5", "0", "3">>
ErrDeadline == <<"d", "e", "a", "d", "l", "i", "n", "e">>
ErrCanceled == <<"c", "a", "n", "c", "e", "l", "e", "d">>
ErrorPrefix == <<"E", "r", "r", "o", "r", ":", " ">>

BackendReplies == {[response |-> <<"x">>, tokens |-> 1], [response |-> <<"y", "\n">>, tokens |-> 2]}

\* ctx := context.Background()
AskWriteCtx == "Background"

\* ctx.Done() is closed: never for the background context
CtxCancelled(ctx, flushed) == ctx = "caller" /\ flushed

BackendErrors(ctx, flushed) ==
    {ErrUnavailable, ErrDeadline} \cup (IF CtxCancelled(ctx, flushed) THEN {ErrCanceled} ELSE {})

AskRequestDefaultModel(s, prompt) ==
    [Messages |-> s.messages, Prompt |-> prompt, Model |-> DefaultModel, Temperature |-> s.temperature,
     SystemPrompt |-> s.systemPrompt, ThinkingTokens |-> s.thinkingTokens, Prefill |-> s.prefill]
AskRequest(s, prompt) ==
    [Messages |-> s.messages, Prompt |-> prompt, Model |-> s.model, Temperature |-> s.temperature,
     SystemPrompt |-> s.systemPrompt, ThinkingTokens |-> s.thinkingTokens, Prefill |-> s.prefill]

\* session.SetLastResponse("Error: " + err.Error())
AskFailUpdateAppending(s, prompt, err) ==
    SetLastResponse(AddMessage(s, "user", prompt), ErrorPrefix \o err)
AskFailUpdateClearing(s, prompt, err) == SetLastResponse([s EXCEPT !.totalTokens = 0], ErrorPrefix \o err)
AskFailUpdate(s, prompt, err) == SetLastResponse(s, ErrorPrefix \o err)


(***************************************************************************)
(* Content synthesis and input parsing of the leaf files.                  *)
(***************************************************************************)
LeafFiles == {"ask", "context", "ctl", "model", "temperature", "system", "thinking", "prefill"}
SessionReadFiles == LeafFiles \ {"ctl"}
SettingsFiles == {"model", "temperature", "system", "thinking", "prefill"}

S_new == <<"n", "e", "w">>
S_reset == <<"r", "e", "s", "e", "t">>
S_close == <<"c", "l", "o", "s", "e">>
S_max == <<"m", "a", "x">>
S_disabled == <<"d", "i", "s", "a", "b", "l", "e", "d">>
S_off == <<"o", "f", "f">>
S_user == <<"u", "s", "e", "r">>
S_assistant == <<"a", "s", "s", "i", "s", "t", "a", "n", "t">>

RECURSIVE Concat(_)
Concat(ss) == IF ss = <<>> THEN <<>> ELSE Head(ss) \o Concat(Tail(ss))

\* encoding/json string escaping of the bytes the model uses
JSONEscape(c) ==
    CASE c = "\n" -> <<"\\", "n">>
      [] c = "\t" -> <<"\\", "t">>
      [] c = "\r" -> <<"\\", "r">>
      [] c = "\"" -> <<"\\", "\"">>
      [] c = "\\" -> <<"\\", "\\">>
      [] OTHER -> <<c>>

JSONString(s) == <<"\"">> \o Concat([i \in 1..Len(s) |-> JSONEscape(s[i])]) \o <<"\"">>

RoleText(role) == IF role = "user" THEN S_user ELSE S_assistant

\* one element of json.MarshalIndent(messages, "", "  ")
JSONMessage(m) ==
    <<" ", " ", "{", "\n", " ", " ", " ", " ", "\"", "r", "o", "l", "e", "\"", ":", " ">>
    \o JSONString(RoleText(m.Role))
    \o <<",", "\n", " ", " ", " ", " ", "\"", "c", "o", "n", "t", "e", "n", "t", "\"", ":", " ">>
    \o JSONString(m.Content) \o <<"\n", " ", " ", "}">>

\* Session.MessagesJSON
MessagesJSON(msgs) ==
    IF msgs = <<>> THEN <<"[", "]">>
    ELSE <<"[", "\n">>
         \o Concat([i \in 1..Len(msgs) |->
                      JSONMessage(msgs[i]) \o (IF i < Len(msgs) THEN <<",", "\n">> ELSE <<"\n">>)])
         \o <<"]">>

WithNL(s) == IF s # <<>> /\ ~HasSuffixNL(s) THEN s \o <<NL>> ELSE s

Pad2(n) == IF n < 10 THEN <<"0">> \o ItoaNat(n) ELSE ItoaNat(n)

\* The thousandths k/1000 in [0, 2] with k ending in 5 whose float64 is
\* printed by %.2f with the second decimal rounded up: the float64 nearest
\* to k/1000 lies above it, or is exactly it and the digit before is odd.
TiesRoundedUp ==
    {
     5, 25, 35, 55, 65, 85, 95, 115, 135, 165, 195, 225, 255, 265, 275, 315,
     325, 335, 375, 385, 395, 405, 445, 455, 465, 505, 515, 525, 535, 545, 555, 635,
     645, 655, 665, 675, 685, 755, 765, 775, 785, 795, 805, 875, 885, 895, 905, 915,
     925, 935, 1135, 1145, 1155, 1165, 1175, 1185, 1195, 1205, 1215, 1225, 1235, 1245, 1375, 1385,
     1395, 1405, 1415, 1425, 1435, 1445, 1455, 1465, 1475, 1485, 1495, 1635, 1645, 1655, 1665, 1675,
     1685, 1695, 1705, 1715, 1725, 1735, 1745, 1875, 1885, 1895, 1905, 1915, 1925, 1935, 1945, 1955,
     1965, 1975, 1985, 1995}

\* fmt.Sprintf("%.2f", f): the exact value of the float64 rounded to two
\* decimals (for the values of the model, thousandths in [0, 2])
FormatFloat2(f) ==
    CASE f.kind = "nan" -> <<"N", "a", "N">>
      [] f.kind = "inf" -> (IF f.milli < 0 THEN <<"-">> ELSE <<"+">>) \o <<"I", "n", "f">>
      [] OTHER ->
           LET mag == IF f.milli < 0 THEN 0 - f.milli ELSE f.milli
               up == mag % 10 > 5 \/ (mag % 10 = 5 /\ mag \in TiesRoundedUp)
               cents == (mag \div 10) + (IF up THEN 1 ELSE 0)
           IN  (IF f.milli < 0 /\ cents > 0 THEN <<"-">> ELSE <<>>)
               \o ItoaNat(cents \div 100) \o <<".">> \o Pad2(cents % 100)

\* the content a read of the leaf file synthesizes from session s
Content(file, s) ==
    CASE file = "ask" -> WithNL(s.lastResponse)
      [] file = "context" -> MessagesJSON(s.messages) \o <<NL>>
      [] file = "model" -> s.model \o <<NL>>
      [] file = "temperature" -> FormatFloat2(s.temperature) \o <<NL>>
      [] file = "system" -> WithNL(s.systemPrompt)
      [] file = "thinking" ->
           (IF s.thinkingTokens < 0 THEN S_max
            ELSE IF s.thinkingTokens = 0 THEN S_disabled
            ELSE Itoa(s.thinkingTokens)) \o <<NL>>
      [] file = "prefill" -> WithNL(s.prefill)

\* BaseFile.Stat().Length of a node made by NewBaseFile(name, mode)
BaseStatLength == 0

\* the Length that Stat of the leaf file reports; a is the address that
\* f.sm.Get(f.id) returned (Nil: none), and `new` has no session
StatLength(file, a) ==
    CASE file = "new" -> 0
      [] file = "ctl" -> BaseStatLength
      [] file = "thinking" -> 16
      [] a = Nil -> BaseStatLength
      [] file = "ask" -> Len(heap[a].lastResponse)
      [] file = "context" -> Len(MessagesJSON(heap[a].messages)) + 1
      [] file = "model" -> Len(heap[a].model) + 1
      [] file = "temperature" -> Len(FormatFloat2(heap[a].temperature) \o <<NL>>)
      [] file = "system" ->
           IF heap[a].systemPrompt # <<>> THEN Len(heap[a].systemPrompt) + 1 ELSE BaseStatLength
      [] file = "prefill" ->
           IF heap[a].prefill # <<>> THEN Len(heap[a].prefill) + 1 ELSE BaseStatLength

\* the files whose Stat looks the session up
SessionStatFiles == {"ask", "context", "model", "temperature", "system", "prefill"}

IndexOfDot(s) == IF \E i \in 1..Len(s) : s[i] = "." THEN CHOOSE i \in 1..Len(s) : s[i] = "." /\ \A j \in 1..(i - 1) : s[j] # "." ELSE 0

Pad3(s) == SubSeq(s \o <<"0", "0", "0">>, 1, 3)

\* strconv.ParseFloat(s, 64) on decimal literals without exponent (at most
\* three fractional digits are kept) and on the spellings of NaN and Inf
ParseFloatOf(s) ==
    LET signed == s # <<>> /\ Head(s) \in {"+", "-"}
        neg == signed /\ Head(s) = "-"
        body == IF signed THEN Tail(s) ELSE s
        dot == IndexOfDot(body)
        ip == IF dot = 0 THEN body ELSE SubSeq(body, 1, dot - 1)
        fp == IF dot = 0 THEN <<>> ELSE SubSeq(body, dot + 1, Len(body))
        digitsOnly(x) == \A i \in 1..Len(x) : IsDigit(x[i])
        mag == DigitsVal(ip) * 1000 + DigitsVal(Pad3(fp))
    IN  IF body \in {<<"N", "a", "N">>, <<"n", "a", "n">>}
        THEN [ok |-> TRUE, f |-> [kind |-> "nan", milli |-> 0]]
        ELSE IF body \in {<<"I", "n", "f">>, <<"i", "n", "f">>}
        THEN [ok |-> TRUE, f |-> [kind |-> "inf", milli |-> IF neg THEN -1 ELSE 1]]
        ELSE IF digitsOnly(ip) /\ digitsOnly(fp) /\ Len(ip) + Len(fp) > 0
        THEN [ok |-> TRUE, f |-> Float(IF neg THEN 0 - mag ELSE mag)]
        ELSE [ok |-> FALSE, f |-> Float(0)]

\* ParseFloatOf of the value of s, which is computed once
ParseFloat(s) == CHOOSE r \in {ParseFloatOf(v) : v \in {s}} : TRUE

\* temp < 0.0 || temp > 2.0: every comparison with NaN is false
TemperatureOutOfRange(f) ==
    CASE f.kind = "nan" -> FALSE
      [] f.kind = "inf" -> TRUE
      [] OTHER -> f.milli < 0 \/ f.milli > 2000

\* what a write of buf to the settings file does to session s: the error
\* returned, whether the setter is called, and the session afterwards
ApplySetting(file, s, buf) ==
    CASE file = "model" ->
           LET model == TrimSpace(buf)
           IN  IF model # <<>> THEN [err |-> "nil", set |-> TRUE, s |-> SetModel(s, model)]
               ELSE [err |-> "nil", set |-> FALSE, s |-> s]
      [] file = "temperature" ->
           LET r == ParseFloat(TrimSpace(buf))
           IN  IF ~r.ok THEN [err |-> "invalid temperature", set |-> FALSE, s |-> s]
               ELSE IF TemperatureOutOfRange(r.f)
               THEN [err |-> "temperature must be between 0.0 and 2.0", set |-> FALSE, s |-> s]
               ELSE [err |-> "nil", set |-> TRUE, s |-> SetTemperature(s, r.f)]
      [] file = "system" -> [err |-> "nil", set |-> TRUE, s |-> SetSystemPrompt(s, TrimSpace(buf))]
      [] file = "thinking" ->
           LET value == TrimSpace(buf)
               r == Atoi(value)
           IN  IF value \in {S_max, <<"-", "1">>}
               THEN [err |-> "nil", set |-> TRUE, s |-> SetThinkingTokens(s, -1)]
               ELSE IF value \in {S_disabled, S_off, <<"0">>}
               THEN [err |-> "nil", set |-> TRUE, s |-> SetThinkingTokens(s, 0)]
               ELSE IF ~r.ok THEN [err |-> "invalid thinking budget", set |-> FALSE, s |-> s]
               ELSE [err |-> "nil", set |-> TRUE, s |-> SetThinkingTokens(s, r.val)]
      [] file = "prefill" -> [err |-> "nil", set |-> TRUE, s |-> SetPrefill(s, TrimSuffixNL(buf))]

\* the buffers the callers of the model write
SettingBufs(file) ==
    CASE file = "model" -> {<<"m", "\n">>, <<" ">>}
      [] file = "temperature" ->
           {<<"1", ".", "5", "\n">>, <<"2", ".", "5">>, <<"0", ".", "1", "2", "5">>,
            <<"N", "a", "N">>, <<"I", "n", "f">>, <<"h", "o", "t">>}
      [] file = "system" -> {<<" ", "s", "\n">>}
      [] file = "thinking" ->
           {S_max, <<"-", "1">>, <<"0">>, S_off, S_disabled, <<"5", "0", "0", "\n">>, <<"x">>,
            <<"-", "5">>}
      [] file = "prefill" -> {<<"p", " ", "\n">>}
CtlBufs == {S_reset \o <<NL>>, S_close, <<"r", "m">>}
AskBufs == {<<"a", "\n">>, <<"b">>, <<" ", "\n">>, <<>>}


(***************************************************************************)
(* Callers.                                                                *)
(***************************************************************************)
NoReq == AskRequest(NewSession(0, DefaultSessionDefaults), <<>>)
NoOut == [ok |-> TRUE, response |-> <<>>, tokens |-> 0, err |-> <<>>]

\* the locals of a handler; flushed, behind, dirty, preTotal and after
\* are history: the caller cancelled the pending write, the callers whose
\* backend call completed before this one's, another caller wrote to the
\* session during this Ask, the session's totalTokens when the handler
\* looked it up, the id was retired when the handler began
IdleLoc ==
    [file |-> "", mode |-> "", id |-> 0, buf |-> <<>>, sess |-> Nil, req |-> NoReq, out |-> NoOut,
     ctx |-> "", flushed |-> FALSE, behind |-> {}, dirty |-> FALSE, preTotal |-> 0,
     after |-> FALSE]

\* a caller's sequential read of `new`
NoClient == [open |-> FALSE, done |-> FALSE, cap |-> 0, offset |-> 0, got |-> <<>>, id |-> 0]

\* what an operation returned; path names the branch the handler took
NoRes ==
    [by |-> 0, file |-> "", mode |-> "", id |-> 0, n |-> 0, err |-> "", data |-> <<>>, names |-> {},
     path |-> "", after |-> FALSE, clean |-> FALSE, aux |-> 0]

Result(file, mode, id, n, err, path) ==
    [NoRes EXCEPT !.file = file, !.mode = mode, !.id = id, !.n = n, !.err = err, !.path = path,
                  !.after = id \in retired]

ResultOf(p, n, err, path) ==
    [NoRes EXCEPT !.file = loc[p].file, !.mode = loc[p].mode, !.id = loc[p].id, !.n = n,
                  !.err = err, !.path = path, !.after = loc[p].after]

AskPcs == {"ask_closed", "ask_snap", "ask_call", "ask_fail", "ask_user", "ask_asst", "ask_tok", "ask_last"}
AskPostPcs == {"ask_user", "ask_asst", "ask_tok", "ask_last"}

\* the new locals: p's become l; a write to the object at address a (Nil: no
\* write) is recorded with the other callers that are inside an Ask on it; a
\* caller that returns leaves the completion order of the others
Locals(p, l, a) ==
    [q \in Procs |->
        IF q = p THEN l
        ELSE [loc[q] EXCEPT
                !.dirty = @ \/ (a # Nil /\ loc[q].sess = a /\ pc[q] \in AskPcs),
                !.behind = IF l = IdleLoc THEN @ \ {p} ELSE @]]

Begin(file, mode, id, buf) ==
    [IdleLoc EXCEPT !.file = file, !.mode = mode, !.id = id, !.buf = buf, !.after = id \in retired]

\* the ids a caller addresses: those issued and the next one
Ids == 0..nextID

\* a caller invokes an operation
Invoke == ops < MaxOps /\ ops' = ops + 1

Goto(p, label) == pc' = [pc EXCEPT ![p] = label]
Returns(p, r) == pc' = [pc EXCEPT ![p] = "idle"] /\ res' = [r EXCEPT !.by = p]

Init ==
    /\ heap = <<>>
    /\ sessions = [i \in {} |-> Nil]
    /\ nextID = 0
    /\ smMu = FreeMu
    /\ sessMu = <<>>
    /\ pc = [p \in Procs |-> "idle"]
    /\ loc = [p \in Procs |-> IdleLoc]
    /\ res = NoRes
    /\ issued = <<>>
    /\ retired = {}
    /\ ops = 0
    /\ client = [p \in Procs |-> NoClient]

(***************************************************************************)
(* The root directory and the clone file.                                  *)
(***************************************************************************)
DirNames(id) == IF Get(id) = Nil THEN {} ELSE LeafFiles

RootNames == {S_new} \cup {Itoa(id) : id \in ListSessions}

\* SessionsDir.Lookup(name): "nil" with the node found, or ErrNotFound
RootLookup(name) ==
    IF name = S_new THEN "nil"
    ELSE IF ~Atoi(name).ok THEN "ErrNotFound"
    ELSE IF Get(Atoi(name).val) = Nil THEN "ErrNotFound"
    ELSE "nil"

\* SessionDir.Lookup(name) of the directory of id
DirLookup(id, name) ==
    IF Get(id) = Nil THEN "ErrNotFound"
    ELSE IF name \in LeafFiles THEN "nil"
    ELSE "ErrNotFound"

\* NewFile.Read(p, offset) with len(p) = cap: at an offset above 0 end of
\* data; at offset 0 SessionManager.Create, then copy(p, "<id>\n")
NewFileReadAt(p, offset, cap) ==
    IF offset > 0
    THEN /\ Returns(p, [Result("new", "read", 0, 0, "EOF", "") EXCEPT !.aux = offset])
         /\ UNCHANGED <<heap, sessions, nextID, smMu, sessMu, loc, issued, retired>>
    ELSE /\ CanLock(smMu)
         /\ LET id == AllocID(nextID, sessions)
                content == Itoa(id) \o <<NL>>
                data == CopyOut(content, 0, cap)
            IN  /\ nextID' = nextID + 1
                /\ heap' = Append(heap, NewSession(id, DefaultSessionDefaults))
                /\ sessMu' = Append(sessMu, FreeMu)
                /\ sessions' = RegistryPut(sessions, id, Len(heap) + 1)
                /\ issued' = Append(issued, id)
                /\ Returns(p, [Result("new", "read", id, Len(data), "nil", "") EXCEPT
                                  !.data = data])
         /\ UNCHANGED <<smMu, loc, retired>>

\* a read of `new` at offset 0 or 1 into a buffer that holds the content
NewFileRead(p) ==
    /\ pc[p] = "idle"
    /\ UNCHANGED client
    /\ Invoke
    /\ \E offset \in {0, 1} : NewFileReadAt(p, offset, Len(Itoa(nextID)) + 1)

\* NewFile.Write
NewFileWrite(p) ==
    /\ pc[p] = "idle"
    /\ UNCHANGED client
    /\ Invoke
    /\ Returns(p, Result("new", "write", 0, 0, "ErrPermission", ""))
    /\ UNCHANGED <<heap, sessions, nextID, smMu, sessMu, loc, issued, retired>>

\* A caller reads `new` sequentially with a buffer of one capacity: from
\* offset 0, then at the offset advanced by the bytes returned, until end of
\* data; got is the concatenation of what the reads returned, id the session
\* the first read created.
CloneRead(p) ==
    /\ pc[p] = "idle"
    /\ Invoke
    /\ LET cur == IF client[p].done THEN NoClient ELSE client[p]
       IN  \E cap \in 1..MaxCap :
              /\ cur.open => cap = cur.cap
              /\ NewFileReadAt(p, cur.offset, cap)
              /\ client' = [client EXCEPT ![p] =
                               IF res'.err = "EOF" THEN [cur EXCEPT !.done = TRUE]
                               ELSE [open |-> TRUE, done |-> FALSE, cap |-> cap,
                                     offset |-> cur.offset + res'.n, got |-> cur.got \o res'.data,
                                     id |-> IF cur.open THEN cur.id ELSE res'.id]]

\* the store after n reads of `new` at offset 0, n up to MaxStartID
InitClone ==
    \E n \in 0..MaxStartID :
        /\ heap = [i \in 1..n |-> NewSession(i - 1, DefaultSessionDefaults)]
        /\ sessions = [id \in 0..(n - 1) |-> id + 1]
        /\ nextID = n
        /\ smMu = FreeMu
        /\ sessMu = [i \in 1..n |-> FreeMu]
        /\ pc = [p \in Procs |-> "idle"]
        /\ loc = [p \in Procs |-> IdleLoc]
        /\ res = NoRes
        /\ issued = [i \in 1..n |-> i - 1]
        /\ retired = {}
        /\ ops = 0
        /\ client = [p \in Procs |-> NoClient]

NextClone == \E p \in Procs : CloneRead(p)

SpecClone == InitClone /\ [][NextClone]_vars

\* SessionsDir.Children
RootChildren(p) ==
    /\ pc[p] = "idle"
    /\ UNCHANGED client
    /\ Invoke
    /\ CanRLock(smMu)
    /\ Returns(p, [Result("root", "children", 0, 0, "nil", "") EXCEPT !.names = RootNames])
    /\ UNCHANGED <<heap, sessions, nextID, smMu, sessMu, loc, issued, retired>>

\* SessionsDir.Lookup
RootLookupCall(p) ==
    /\ pc[p] = "idle"
    /\ UNCHANGED client
    /\ Invoke
    /\ CanRLock(smMu)
    /\ \E id \in Ids :
         Returns(p, Result("root", "lookup", id, 0, RootLookup(Itoa(id)), ""))
    /\ UNCHANGED <<heap, sessions, nextID, smMu, sessMu, loc, issued, retired>>

\* SessionDir.Children
SessionDirChildren(p) ==
    /\ pc[p] = "idle"
    /\ UNCHANGED client
    /\ Invoke
    /\ CanRLock(smMu)
    /\ \E id \in Ids :
         Returns(p, [Result("dir", "children", id, 0, "nil", "") EXCEPT !.names = DirNames(id)])
    /\ UNCHANGED <<heap, sessions, nextID, smMu, sessMu, loc, issued, retired>>

\* SessionDir.Lookup
SessionDirLookup(p) ==
    /\ pc[p] = "idle"
    /\ UNCHANGED client
    /\ Invoke
    /\ CanRLock(smMu)
    /\ \E id \in Ids, name \in {"ask", "bogus"} :
         Returns(p, Result("dir", "lookup", id, 0, DirLookup(id, name), name))
    /\ UNCHANGED <<heap, sessions, nextID, smMu, sessMu, loc, issued, retired>>


(***************************************************************************)
(* Reads and writes of the leaf files of a session directory.  A leaf node *)
(* holds the session id only, so it can be used for any id at any time.    *)
(***************************************************************************)
\* Read of ask, context, model, temperature, system, thinking, prefill:
\* session := f.sm.Get(f.id); nil is ErrNotFound
LeafReadGet(p) ==
    /\ pc[p] = "idle"
    /\ UNCHANGED client
    /\ Invoke
    /\ CanRLock(smMu)
    /\ \E file \in SessionReadFiles, id \in Ids :
         IF Get(id) = Nil
         THEN /\ Returns(p, Result(file, "read", id, 0, "ErrNotFound", ""))
              /\ UNCHANGED loc
         ELSE /\ loc' = Locals(p, [Begin(file, "read", id, <<>>) EXCEPT !.sess = Get(id)], Nil)
              /\ Goto(p, "read")
              /\ res' = NoRes
    /\ UNCHANGED <<heap, sessions, nextID, smMu, sessMu, issued, retired>>

\* the rest of Read, at offset 0 into a buffer that holds the content: the
\* getter under the session's read lock, then the copy
LeafReadBody(p) ==
    /\ pc[p] = "read"
    /\ UNCHANGED client
    /\ CanRLock(sessMu[loc[p].sess])
    /\ LET content == Content(loc[p].file, heap[loc[p].sess])
       IN  IF 0 >= Len(content)
           THEN Returns(p, ResultOf(p, 0, "EOF", ""))
           ELSE Returns(p, [ResultOf(p, Len(content), "nil", "") EXCEPT !.data = content])
    /\ loc' = Locals(p, IdleLoc, Nil)
    /\ UNCHANGED <<heap, sessions, nextID, smMu, sessMu, issued, retired, ops>>

\* Stat of a leaf file or of `new`: new, ctl and thinking report a fixed
\* Length; the others look the session up
LeafStatGet(p) ==
    /\ pc[p] = "idle"
    /\ UNCHANGED client
    /\ Invoke
    /\ \/ /\ Returns(p, Result("new", "stat", 0, StatLength("new", Nil), "nil", ""))
          /\ UNCHANGED loc
       \/ \E file \in LeafFiles \ SessionStatFiles, id \in Ids :
             /\ Returns(p, Result(file, "stat", id, StatLength(file, Nil), "nil", ""))
             /\ UNCHANGED loc
       \/ \E file \in SessionStatFiles, id \in Ids :
             /\ CanRLock(smMu)
             /\ IF Get(id) = Nil
                THEN /\ Returns(p, Result(file, "stat", id, StatLength(file, Nil), "nil", ""))
                     /\ UNCHANGED loc
                ELSE /\ loc' = Locals(p, [Begin(file, "stat", id, <<>>) EXCEPT !.sess = Get(id)], Nil)
                     /\ Goto(p, "stat")
                     /\ res' = NoRes
    /\ UNCHANGED <<heap, sessions, nextID, smMu, sessMu, issued, retired>>

\* the rest of Stat: the getter under the session's read lock
LeafStatBody(p) ==
    /\ pc[p] = "stat"
    /\ UNCHANGED client
    /\ CanRLock(sessMu[loc[p].sess])
    /\ Returns(p, ResultOf(p, StatLength(loc[p].file, loc[p].sess), "nil", ""))
    /\ loc' = Locals(p, IdleLoc, Nil)
    /\ UNCHANGED <<heap, sessions, nextID, smMu, sessMu, issued, retired, ops>>

\* Write of model, temperature, system, thinking, prefill: the lookup
SettingWriteGet(p) ==
    /\ pc[p] = "idle"
    /\ UNCHANGED client
    /\ Invoke
    /\ CanRLock(smMu)
    /\ \E file \in SettingsFiles, id \in Ids :
         \E buf \in SettingBufs(file) :
            IF Get(id) = Nil
            THEN /\ Returns(p, Result(file, "write", id, 0, "ErrNotFound", ""))
                 /\ UNCHANGED loc
            ELSE /\ loc' = Locals(p, [Begin(file, "write", id, buf) EXCEPT !.sess = Get(id)], Nil)
                 /\ Goto(p, "write")
                 /\ res' = NoRes
    /\ UNCHANGED <<heap, sessions, nextID, smMu, sessMu, issued, retired>>

\* the rest of Write: parse, then the setter under the session's lock
SettingWriteBody(p) ==
    /\ pc[p] = "write"
    /\ UNCHANGED client
    /\ LET a == loc[p].sess
       IN  \E r \in {ApplySetting(loc[p].file, heap[a], loc[p].buf)} :
              /\ r.set => CanLock(sessMu[a])
              /\ heap' = [heap EXCEPT ![a] = r.s]
              /\ loc' = Locals(p, IdleLoc, IF r.set THEN a ELSE Nil)
              /\ Returns(p, ResultOf(p, IF r.err = "nil" THEN Len(loc[p].buf) ELSE 0, r.err, ""))
    /\ UNCHANGED <<sessions, nextID, smMu, sessMu, issued, retired, ops>>

\* SessionCtlFile.Read
CtlRead(p) ==
    /\ pc[p] = "idle"
    /\ UNCHANGED client
    /\ Invoke
    /\ \E id \in Ids : Returns(p, Result("ctl", "read", id, 0, "EOF", ""))
    /\ UNCHANGED <<heap, sessions, nextID, smMu, sessMu, loc, issued, retired>>

\* SessionCtlFile.Write: the command switch; "reset" runs Reset up to its
\* lookup, "close" runs Close up to its lookup under the registry lock
CtlWrite(p) ==
    /\ pc[p] = "idle"
    /\ UNCHANGED client
    /\ Invoke
    /\ \E id \in Ids, buf \in CtlBufs :
         LET cmd == TrimSpace(buf)
         IN  CASE cmd = S_reset ->
                    /\ CanRLock(smMu)
                    /\ IF Get(id) = Nil
                       THEN /\ Returns(p, Result("ctl", "write", id, Len(buf), "nil", "reset-unknown"))
                            /\ UNCHANGED loc
                       ELSE /\ loc' = Locals(p, [Begin("ctl", "write", id, buf) EXCEPT !.sess = Get(id)], Nil)
                            /\ Goto(p, "reset_body")
                            /\ res' = NoRes
                    /\ UNCHANGED smMu
               [] cmd = S_close ->
                    /\ CanLock(smMu)
                    /\ IF id \notin DOMAIN sessions
                       THEN /\ Returns(p, Result("ctl", "write", id, Len(buf), "nil", "close-unknown"))
                            /\ UNCHANGED <<loc, smMu>>
                       ELSE /\ smMu' = [smMu EXCEPT !.w = p]
                            /\ loc' = Locals(p, [Begin("ctl", "write", id, buf) EXCEPT !.sess = sessions[id]], Nil)
                            /\ Goto(p, "close_mark")
                            /\ res' = NoRes
               [] OTHER ->
                    /\ Returns(p, Result("ctl", "write", id, 0, "unknown command", ""))
                    /\ UNCHANGED <<loc, smMu>>
    /\ UNCHANGED <<heap, sessions, nextID, sessMu, issued, retired>>

\* SessionManager.Reset after the lookup: session.Reset()
ResetBody(p) ==
    /\ pc[p] = "reset_body"
    /\ UNCHANGED client
    /\ CanLock(sessMu[loc[p].sess])
    /\ LET a == loc[p].sess
       IN  /\ heap' = [heap EXCEPT ![a] = SessionReset(@)]
           /\ loc' = Locals(p, IdleLoc, a)
           /\ Returns(p, [ResultOf(p, Len(loc[p].buf), "nil", "reset") EXCEPT
                             !.aux = heap[a].totalTokens])
    /\ UNCHANGED <<sessions, nextID, smMu, sessMu, issued, retired, ops>>

\* SessionManager.Close: session.closed = true under the session's lock,
\* the registry lock held
CloseMark(p) ==
    /\ pc[p] = "close_mark"
    /\ UNCHANGED client
    /\ CanLock(sessMu[loc[p].sess])
    /\ LET a == loc[p].sess
       IN  /\ heap' = [heap EXCEPT ![a] = MarkClosed(@)]
           /\ loc' = Locals(p, loc[p], a)
    /\ Goto(p, "close_del")
    /\ res' = NoRes
    /\ UNCHANGED <<sessions, nextID, smMu, sessMu, issued, retired, ops>>

\* SessionManager.Close: delete(sm.sessions, id), unlock, return
CloseDelete(p) ==
    /\ pc[p] = "close_del"
    /\ UNCHANGED client
    /\ sessions' = RegistryDelete(sessions, loc[p].id)
    /\ smMu' = [smMu EXCEPT !.w = 0]
    /\ retired' = retired \cup {loc[p].id}
    /\ loc' = Locals(p, IdleLoc, Nil)
    /\ Returns(p, ResultOf(p, Len(loc[p].buf), "nil", "close"))
    /\ UNCHANGED <<heap, nextID, sessMu, issued, ops>>


(***************************************************************************)
(* The ask file and SessionManager.Ask.                                    *)
(***************************************************************************)
\* SessionAskFile.Write up to Ask's lookup: an empty prompt returns at once;
\* an error of Ask is logged and the write returns len(p), nil
AskWrite(p) ==
    /\ pc[p] = "idle"
    /\ UNCHANGED client
    /\ Invoke
    /\ \E id \in Ids, buf \in AskBufs :
         LET prompt == TrimSpace(buf)
         IN  IF prompt = <<>>
             THEN /\ Returns(p, Result("ask", "write", id, Len(buf), "nil", "empty"))
                  /\ UNCHANGED <<loc>>
             ELSE /\ CanRLock(smMu)
                  /\ IF Get(id) = Nil
                     THEN /\ Returns(p, Result("ask", "write", id, Len(buf), "nil", "ErrSessionNotFound"))
                          /\ UNCHANGED <<loc>>
                     ELSE /\ loc' = Locals(p, [Begin("ask", "write", id, buf) EXCEPT
                                                  !.sess = Get(id), !.ctx = AskWriteCtx,
                                                  !.preTotal = heap[Get(id)].totalTokens], Nil)
                          /\ Goto(p, "ask_closed")
                          /\ res' = NoRes
    /\ UNCHANGED <<heap, sessions, nextID, smMu, sessMu, issued, retired>>

\* if session.IsClosed() { return "", ErrSessionClosed }
AskIsClosed(p) ==
    /\ pc[p] = "ask_closed"
    /\ UNCHANGED client
    /\ CanRLock(sessMu[loc[p].sess])
    /\ IF heap[loc[p].sess].closed
       THEN /\ Returns(p, ResultOf(p, Len(loc[p].buf), "nil", "ErrSessionClosed"))
            /\ loc' = Locals(p, IdleLoc, Nil)
       ELSE /\ Goto(p, "ask_snap")
            /\ res' = NoRes
            /\ UNCHANGED loc
    /\ UNCHANGED <<heap, sessions, nextID, smMu, sessMu, issued, retired, ops>>

\* the snapshot of history and settings under the session's read lock, and
\* the request built from it
AskSnapshot(p) ==
    /\ pc[p] = "ask_snap"
    /\ UNCHANGED client
    /\ CanRLock(sessMu[loc[p].sess])
    /\ LET a == loc[p].sess
       IN  /\ loc' = Locals(p, [loc[p] EXCEPT !.req = AskRequest(heap[a], TrimSpace(loc[p].buf))], Nil)
           /\ sessMu' = [sessMu EXCEPT ![a] = AskSnapshotUnlock(RLockBy(@, p), p)]
    /\ Goto(p, "ask_call")
    /\ res' = NoRes
    /\ UNCHANGED <<heap, sessions, nextID, smMu, issued, retired, ops>>

\* the caller of the pending ask write cancels it (the transport's flush)
CallerCancel(p) ==
    /\ pc[p] = "ask_call"
    /\ UNCHANGED client
    /\ ~loc[p].flushed
    /\ loc' = Locals(p, [loc[p] EXCEPT !.flushed = TRUE], Nil)
    /\ res' = NoRes
    /\ UNCHANGED <<heap, sessions, nextID, smMu, sessMu, pc, issued, retired, ops>>

\* sm.apiClient.AskWithRequest(ctx, req) returns
BackendReturn(p) ==
    /\ pc[p] = "ask_call"
    /\ UNCHANGED client
    /\ \/ \E reply \in BackendReplies :
            /\ loc' = Locals(p, [loc[p] EXCEPT !.flushed = FALSE,
                    !.out = [ok |-> TRUE, response |-> reply.response, tokens |-> reply.tokens, err |-> <<>>],
                    !.behind = {q \in Procs \ {p} : pc[q] \in AskPostPcs /\ loc[q].sess = loc[p].sess}], Nil)
            /\ Goto(p, "ask_user")
       \/ \E err \in BackendErrors(loc[p].ctx, loc[p].flushed) :
            /\ loc' = Locals(p, [loc[p] EXCEPT !.flushed = FALSE,
                    !.out = [ok |-> FALSE, response |-> <<>>, tokens |-> 0, err |-> err]], Nil)
            /\ Goto(p, "ask_fail")
    /\ res' = NoRes
    /\ UNCHANGED <<heap, sessions, nextID, smMu, sessMu, issued, retired, ops>>

\* if err != nil { session.SetLastResponse("Error: " + err.Error()); return "", err }
AskFail(p) ==
    /\ pc[p] = "ask_fail"
    /\ UNCHANGED client
    /\ CanLock(sessMu[loc[p].sess])
    /\ LET a == loc[p].sess
       IN  /\ heap' = [heap EXCEPT ![a] = AskFailUpdate(@, loc[p].req.Prompt, loc[p].out.err)]
           /\ loc' = Locals(p, IdleLoc, a)
           /\ Returns(p, [ResultOf(p, Len(loc[p].buf), "nil", "failed") EXCEPT !.clean = ~loc[p].dirty])
    /\ UNCHANGED <<sessions, nextID, smMu, sessMu, issued, retired, ops>>

\* session.AddMessage("user", prompt)
AskAddUser(p) ==
    /\ pc[p] = "ask_user"
    /\ UNCHANGED client
    /\ CanLock(sessMu[loc[p].sess])
    /\ LET a == loc[p].sess
       IN  /\ heap' = [heap EXCEPT ![a] = AddMessage(@, "user", loc[p].req.Prompt)]
           /\ loc' = Locals(p, loc[p], a)
    /\ Goto(p, "ask_asst")
    /\ res' = NoRes
    /\ UNCHANGED <<sessions, nextID, smMu, sessMu, issued, retired, ops>>

\* session.AddMessage("assistant", response)
AskAddAssistant(p) ==
    /\ pc[p] = "ask_asst"
    /\ UNCHANGED client
    /\ CanLock(sessMu[loc[p].sess])
    /\ LET a == loc[p].sess
       IN  /\ heap' = [heap EXCEPT ![a] = AddMessage(@, "assistant", loc[p].out.response)]
           /\ loc' = Locals(p, loc[p], a)
    /\ Goto(p, "ask_tok")
    /\ res' = NoRes
    /\ UNCHANGED <<sessions, nextID, smMu, sessMu, issued, retired, ops>>

\* session.AddTokens(tokens)
AskAddTokens(p) ==
    /\ pc[p] = "ask_tok"
    /\ UNCHANGED client
    /\ CanLock(sessMu[loc[p].sess])
    /\ LET a == loc[p].sess
       IN  /\ heap' = [heap EXCEPT ![a] = AddTokens(@, loc[p].out.tokens)]
           /\ loc' = Locals(p, loc[p], a)
    /\ Goto(p, "ask_last")
    /\ res' = NoRes
    /\ UNCHANGED <<sessions, nextID, smMu, sessMu, issued, retired, ops>>

\* session.SetLastResponse(response); return response, nil
AskSetLast(p) ==
    /\ pc[p] = "ask_last"
    /\ UNCHANGED client
    /\ CanLock(sessMu[loc[p].sess])
    /\ LET a == loc[p].sess
       IN  /\ heap' = [heap EXCEPT ![a] = SetLastResponse(@, loc[p].out.response)]
           /\ loc' = Locals(p, IdleLoc, a)
           /\ Returns(p, [ResultOf(p, Len(loc[p].buf), "nil", "ok") EXCEPT !.clean = ~loc[p].dirty])
    /\ UNCHANGED <<sessions, nextID, smMu, sessMu, issued, retired, ops>>

Next ==
    \E p \in Procs :
        \/ NewFileRead(p) \/ NewFileWrite(p)
        \/ RootChildren(p) \/ RootLookupCall(p)
        \/ SessionDirChildren(p) \/ SessionDirLookup(p)
        \/ LeafReadGet(p) \/ LeafReadBody(p)
        \/ LeafStatGet(p) \/ LeafStatBody(p)
        \/ SettingWriteGet(p) \/ SettingWriteBody(p)
        \/ CtlRead(p) \/ CtlWrite(p) \/ ResetBody(p) \/ CloseMark(p) \/ CloseDelete(p)
        \/ AskWrite(p) \/ AskIsClosed(p) \/ AskSnapshot(p) \/ CallerCancel(p) \/ BackendReturn(p)
        \/ AskFail(p) \/ AskAddUser(p) \/ AskAddAssistant(p) \/ AskAddTokens(p) \/ AskSetLast(p)

Spec == Init /\ [][Next]_vars

\* the steps of a caller inside a handler: the scheduler runs every caller
\* that can run, sync.RWMutex starves nobody, and the backend call returns
Step(p) ==
    \/ LeafReadBody(p) \/ LeafStatBody(p) \/ SettingWriteBody(p)
    \/ ResetBody(p) \/ CloseMark(p) \/ CloseDelete(p)
    \/ AskIsClosed(p) \/ AskSnapshot(p) \/ BackendReturn(p)
    \/ AskFail(p) \/ AskAddUser(p) \/ AskAddAssistant(p) \/ AskAddTokens(p) \/ AskSetLast(p)

FairSpec == Spec /\ \A p \in Procs : WF_vars(Step(p))


(***************************************************************************)
(* The claims.                                                             *)
(***************************************************************************)
Registered(a) == \E id \in DOMAIN sessions : sessions[id] = a
Removed(a) == heap[a].closed /\ ~Registered(a)
Last(s) == s[Len(s)]

DefaultSettings(s) ==
    /\ s.model = DefaultSessionDefaults.Model
    /\ s.temperature = DefaultSessionDefaults.Temperature
    /\ s.systemPrompt = DefaultSessionDefaults.SystemPrompt
    /\ s.thinkingTokens = DefaultSessionDefaults.ThinkingTokens
    /\ s.prefill = DefaultSessionDefaults.Prefill

\* C1: once Close has removed a session object from the registry, no step
\* changes that object and no step puts it back in the registry; in
\* particular an Ask that looked it up before the Close appends nothing.
C1_RemovedSessionNeverMutated ==
    [][\A a \in 1..Len(heap) :
          Removed(a) => /\ heap'[a] = heap[a]
                        /\ \A id \in DOMAIN sessions' : sessions'[id] # a]_vars

\* C2: the ids Create has returned are pairwise different, whatever Close
\* calls are interleaved, and a read of `new` at offset 0 returns the decimal
\* id that Create just issued.
C2_IdsNeverReissued ==
    /\ \A i, j \in 1..Len(issued) : i # j => issued[i] # issued[j]
    /\ (res.file = "new" /\ res.mode = "read" /\ res.err = "nil")
          => res.data = Itoa(Last(issued)) \o <<NL>>

C2_Witness == Len(issued) >= 2 /\ issued[1] \in retired

\* C3: every read or write of a leaf file addressed to an id whose close had
\* returned before the operation began fails with NotFound.
C3_LeafOpsAfterCloseNotFound ==
    (res.file \in LeafFiles /\ res.mode \in {"read", "write"} /\ res.after) => res.err = "ErrNotFound"

\* C4: an id of a session that a Close has returned for is absent from
\* ListSessions and from the root listing, its root Lookup and its directory
\* Lookup fail NotFound and its directory has no children, in every later
\* state; and that is what the operations that began after the Close return.
C4_RetiredIdStaysAbsent ==
    /\ \A id \in retired :
          /\ id \notin ListSessions
          /\ Itoa(id) \notin RootNames
          /\ RootLookup(Itoa(id)) = "ErrNotFound"
          /\ \A name \in LeafFiles : DirLookup(id, name) = "ErrNotFound"
          /\ DirNames(id) = {}
    /\ (res.file \in {"root", "dir"} /\ res.mode = "lookup" /\ res.after) => res.err = "ErrNotFound"
    /\ (res.file = "dir" /\ res.mode = "children" /\ res.after) => res.names = {}
    /\ (res.file = "root" /\ res.mode = "children") => \A id \in retired : Itoa(id) \notin res.names

C4_Witness ==
    /\ res.file = "root" /\ res.mode = "lookup" /\ res.after /\ res.err = "ErrNotFound"

\* the fields of a session that an Ask's success appends or adds to
HistoryAndCounters(s) == <<s.messages, s.lastTokens, s.totalTokens>>

\* C5: no step of an ask write up to and including the handling of a backend
\* failure changes the session's history or token counters; the failing write
\* returns success with the full byte count, and the ask file then reads as
\* the formatted failure text.
C5_BackendFailureAbsorbed ==
    [][\A p \in Procs :
          /\ (pc[p] = "idle" /\ pc'[p] = "ask_closed") => heap' = heap
          /\ (pc[p] \in {"ask_closed", "ask_snap", "ask_call", "ask_fail"} /\ pc'[p] # pc[p]) =>
                HistoryAndCounters(heap'[loc[p].sess]) = HistoryAndCounters(heap[loc[p].sess])
          /\ (pc[p] = "ask_fail" /\ pc'[p] # pc[p]) =>
                /\ res'.by = p /\ res'.err = "nil" /\ res'.n = Len(loc[p].buf)
                /\ Content("ask", heap'[loc[p].sess]) = ErrorPrefix \o loc[p].out.err \o <<NL>>]_vars

C5_Witness ==
    /\ res.path = "failed" /\ res.file = "ask" /\ res.mode = "write" /\ res.n > 0
    /\ res.id \in DOMAIN sessions
    /\ Len(heap[sessions[res.id]].messages) = 2
    /\ heap[sessions[res.id]].totalTokens > 0

\* C6: when an Ask whose backend call succeeded with response r and k tokens
\* returns and no other caller wrote to the session since the Ask looked it
\* up, the history is the snapshot followed by user(prompt), assistant(r),
\* totalTokens is its value at the lookup plus k, lastTokens is k and
\* lastResponse is r.
C6_AskSuccessAppendsPair ==
    [][\A p \in Procs :
          (pc[p] = "ask_last" /\ pc'[p] = "idle" /\ ~loc[p].dirty) =>
             LET s == heap'[loc[p].sess]
                 r == loc[p].out.response
                 k == loc[p].out.tokens
             IN  /\ s.messages = loc[p].req.Messages
                        \o <<Message("user", TrimSpace(loc[p].buf)), Message("assistant", r)>>
                 /\ s.totalTokens = loc[p].preTotal + k
                 /\ s.lastTokens = k
                 /\ s.lastResponse = r]_vars

C6_Witness ==
    /\ res.path = "ok" /\ res.clean
    /\ res.id \in DOMAIN sessions
    /\ Len(heap[sessions[res.id]].messages) = 4

\* C7: of two Asks on one session whose backend calls both succeeded, the
\* one whose call completed second has none of its entries in the history
\* before the first has both of its entries there.
C7_AppendsInCompletionOrder ==
    \A p, q \in Procs :
        (q \in loc[p].behind /\ pc[q] \in AskPostPcs /\ pc[p] \in {"ask_asst", "ask_tok", "ask_last"})
           => pc[q] \in {"ask_tok", "ask_last"}

\* C8: an Ask whose backend call failed (by cancellation or deadline) has
\* appended nothing and changed no counter, and while the call is pending a
\* cancellation by the caller of the ask write cancels the context the
\* backend was handed.
C8_CancellationReachesBackend ==
    \A p \in Procs :
        /\ (pc[p] = "ask_fail" /\ ~loc[p].dirty) =>
              /\ heap[loc[p].sess].messages = loc[p].req.Messages
              /\ heap[loc[p].sess].totalTokens = loc[p].preTotal
        /\ (pc[p] = "ask_call" /\ loc[p].flushed) => CtxCancelled(loc[p].ctx, loc[p].flushed)

\* C9: a caller whose Ask is in its backend call holds neither the registry
\* lock nor any session lock.
C9_NoLockHeldDuringBackendCall ==
    \A p \in Procs :
        pc[p] = "ask_call" => /\ ~HoldsSm(p)
                              /\ \A a \in 1..Len(heap) : ~HoldsSess(p, a)

\* a setter on the same session has run to completion during the call
C9_Witness ==
    \E p \in Procs :
        /\ pc[p] = "ask_call"
        /\ res.file \in SettingsFiles /\ res.mode = "write" /\ res.err = "nil"
        /\ res.id = loc[p].id
        /\ heap[loc[p].sess].model # loc[p].req.Model

\* C10: the reset of a session empties its history (context reads "[]\n"),
\* clears lastResponse and both counters and leaves its settings, its closed
\* flag, the registry and every other session as they were; the ctl write
\* returns success.
C10_ResetKeepsSettings ==
    [][\A p \in Procs :
          (pc[p] = "reset_body" /\ pc'[p] = "idle") =>
             LET a == loc[p].sess
                 s == heap[a]
                 t == heap'[a]
             IN  /\ t.messages = <<>> /\ t.lastResponse = <<>> /\ t.lastTokens = 0 /\ t.totalTokens = 0
                 /\ Content("context", t) = <<"[", "]", "\n">>
                 /\ t.model = s.model /\ t.temperature = s.temperature
                 /\ t.systemPrompt = s.systemPrompt /\ t.thinkingTokens = s.thinkingTokens
                 /\ t.prefill = s.prefill
                 /\ t.closed = s.closed /\ t.ID = s.ID
                 /\ sessions' = sessions /\ nextID' = nextID
                 /\ \A b \in 1..Len(heap) : b # a => heap'[b] = heap[b]
                 /\ res'.err = "nil" /\ res'.n = Len(loc[p].buf)]_vars

C10_Witness ==
    /\ res.path = "reset" /\ res.file = "ctl"
    /\ res.id \in DOMAIN sessions
    /\ ~DefaultSettings(heap[sessions[res.id]])

\* C11: across every step, the totalTokens of every session object is at
\* least what it was before the step.
C11_TotalTokensNeverDecreases ==
    [][\A a \in 1..Len(heap) : heap'[a].totalTokens >= heap[a].totalTokens]_vars

\* C11 (amended): a step lowers the totalTokens of a session object only when
\* it is the Reset of that session, which sets it to 0; every other step
\* leaves it as it was or raises it.
C11_TotalTokensDecreaseOnlyByReset ==
    [][\A a \in 1..Len(heap) :
          \/ heap'[a].totalTokens >= heap[a].totalTokens
          \/ /\ heap'[a].totalTokens = 0
             /\ \E p \in Procs : pc[p] = "reset_body" /\ pc'[p] = "idle" /\ loc[p].sess = a]_vars

\* a Reset has returned for a session whose totalTokens was above 0
C11_Witness ==
    /\ res.path = "reset" /\ res.aux > 0
    /\ res.id \in DOMAIN sessions
    /\ heap[sessions[res.id]].totalTokens = 0

IsPrefix(s, t) == Len(s) <= Len(t) /\ SubSeq(t, 1, Len(s)) = s

\* C13: a caller that has read `new` from offset 0 to end of data, with a
\* buffer of any capacity of at least one byte, has received the whole
\* decimal id of the session its first read created.
C13_SequentialReadYieldsWholeId ==
    \A p \in Procs : client[p].done => IsPrefix(Itoa(client[p].id), client[p].got)

\* the content that a full read of the file returns: `new` returns the id it
\* creates and a newline, ctl nothing
FullRead(file, a) ==
    CASE file = "new" -> Itoa(nextID) \o <<NL>>
      [] file = "ctl" -> <<>>
      [] OTHER -> Content(file, heap[a])

\* C14: for `new` and every leaf file of every registered session, the
\* Length that Stat reports is the number of bytes a full read of the file
\* returns in the same state.
C14_StatLengthIsReadLength ==
    \A id \in DOMAIN sessions, file \in LeafFiles \cup {"new"} :
        StatLength(file, sessions[id]) = Len(FullRead(file, sessions[id]))

\* a byte string of whitespace only (the empty one included)
IsBlank(buf) == \A i \in 1..Len(buf) : IsSpace(buf[i])

\* C15: a write to ask of empty or whitespace-only bytes returns success
\* with the full byte count in the step that invokes it, changes no session
\* and never proceeds to SessionManager.Ask, so the backend is not called;
\* only writes with a non-blank prompt proceed.
C15_BlankAskIsNoOp ==
    [][\A p \in Procs :
          /\ (pc[p] = "idle" /\ pc'[p] = "ask_closed") => ~IsBlank(loc'[p].buf)
          /\ (res'.by = p /\ res'.file = "ask" /\ res'.mode = "write" /\ res'.path = "empty") =>
                /\ res'.err = "nil" /\ res'.n \in {0, 2}
                /\ pc'[p] = "idle"
                /\ heap' = heap /\ sessions' = sessions /\ nextID' = nextID]_vars

\* a blank write has returned for a session whose ask file holds a response
C15_Witness ==
    /\ res.file = "ask" /\ res.mode = "write" /\ res.path = "empty" /\ res.n = 2
    /\ res.id \in DOMAIN sessions
    /\ heap[sessions[res.id]].lastResponse # <<>>
    /\ heap[sessions[res.id]].messages # <<>>

\* C16: the temperature stored in every session is a number in [0.0, 2.0]
\* in every reachable state: a write of anything that is not a number in
\* that range (not-a-number included) is rejected and stores nothing.
C16_TemperatureAlwaysInRange ==
    \A a \in 1..Len(heap) :
        /\ heap[a].temperature.kind = "num"
        /\ heap[a].temperature.milli \in 0..2000

\* an optional sign followed by one or more decimal digits
IsDecimalInteger(s) ==
    AllDigits(IF s # <<>> /\ Head(s) \in {"+", "-"} THEN Tail(s) ELSE s)

\* C17: a write to thinking of the line "max" or "-1" stores one and the
\* same budget and the file then reads "max\n"; of "0", "off" or "disabled"
\* stores one and the same budget and the file reads "disabled\n"; of the
\* decimal literal of a positive integer makes the file read that literal
\* and a newline; of anything that is neither a synonym nor a decimal
\* integer returns an error and leaves the session as it was.  Nothing but
\* the thinking budget of that one session changes.
C17_ThinkingSynonyms ==
    [][\A p \in Procs :
          (pc[p] = "write" /\ pc'[p] = "idle" /\ loc[p].file = "thinking") =>
             LET a == loc[p].sess
                 line == TrimSuffixNL(loc[p].buf)
                 ok == res'.err = "nil" /\ res'.n = Len(loc[p].buf)
                 reads == Content("thinking", heap'[a])
             IN  /\ heap' = [heap EXCEPT ![a] = [@ EXCEPT !.thinkingTokens = heap'[a].thinkingTokens]]
                 /\ line \in {S_max, <<"-", "1">>} =>
                       ok /\ heap'[a].thinkingTokens = -1 /\ reads = <<"m", "a", "x", "\n">>
                 /\ line \in {<<"0">>, S_off, S_disabled} =>
                       ok /\ heap'[a].thinkingTokens = 0
                          /\ reads = <<"d", "i", "s", "a", "b", "l", "e", "d", "\n">>
                 /\ (AllDigits(line) /\ Head(line) # "0") => ok /\ reads = line \o <<NL>>
                 /\ (line \notin {S_max, S_off, S_disabled} /\ ~IsDecimalInteger(line)) =>
                       res'.err # "nil" /\ res'.n = 0 /\ heap' = heap]_vars

\* a read of thinking has returned "max\n" after a write stored that budget
C17_Witness ==
    /\ res.file = "thinking" /\ res.mode = "read" /\ res.err = "nil"
    /\ res.data = <<"m", "a", "x", "\n">>

\* C18: a read of prefill returns the stored value followed by one newline
\* when the stored value does not end in a newline (the empty value
\* included), and the stored value itself when it does.
C18_PrefillReadAppendsNewline ==
    [][\A p \in Procs :
          (pc[p] = "read" /\ pc'[p] = "idle" /\ loc[p].file = "prefill") =>
             LET stored == heap[loc[p].sess].prefill
             IN  res'.data = IF HasSuffixNL(stored) THEN stored ELSE stored \o <<NL>>]_vars

\* the ids Create has issued
IssuedIds == {issued[i] : i \in 1..Len(issued)}

\* C19: a write of "reset" or "close" to the ctl of an id that is not
\* registered (never issued, or closed before) returns success in the step
\* that invokes it and changes neither the registry, nor the next id, nor
\* any session; only for a registered id do Reset and Close go on to their
\* bodies.  So a second Close of an id leaves the state the first one left.
C19_UnknownIdIsNoOp ==
    [][\A p \in Procs :
          /\ (pc[p] = "idle" /\ pc'[p] \in {"reset_body", "close_mark"}) =>
                loc'[p].id \in IssuedIds \ retired
          /\ (res'.by = p /\ res'.path \in {"reset-unknown", "close-unknown"}) =>
                /\ res'.id \notin IssuedIds \ retired
                /\ res'.err = "nil" /\ res'.n > 0
                /\ pc'[p] = "idle"
                /\ heap' = heap /\ sessions' = sessions /\ nextID' = nextID
                /\ retired' = retired]_vars

\* a Close has returned as a no-op for an id that an earlier Close removed
C19_Witness ==
    /\ res.path = "close-unknown" /\ res.id \in retired /\ res.err = "nil"

\* C20: SessionManager.Reset or Close is entered, and so the ctl write can
\* succeed, only when the bytes written are exactly "reset" or exactly
\* "close"; every other content returns the unknown-command error.
C20_CtlAcceptsExactCommandsOnly ==
    [][\A p \in Procs :
          (pc[p] = "idle" /\ pc'[p] \in {"reset_body", "close_mark"}) =>
             loc'[p].buf \in {S_reset, S_close}]_vars

\* C21: whenever no Close is inside its critical section (the registry lock
\* is not held for writing), every session in the registry is Active and
\* every session object outside the registry is Closed; no step clears a
\* closed flag that is set; the Reset of a session leaves its closed flag
\* and the registry as they were.
C21_Lifecycle ==
    [][/\ smMu'.w = 0 =>
             \A a \in 1..Len(heap') :
                (\E id \in DOMAIN sessions' : sessions'[id] = a) <=> ~heap'[a].closed
       /\ \A a \in 1..Len(heap) : heap[a].closed => heap'[a].closed
       /\ \A p \in Procs :
             (pc[p] = "reset_body" /\ pc'[p] = "idle") =>
                /\ heap'[loc[p].sess].closed = heap[loc[p].sess].closed
                /\ sessions' = sessions]_vars

\* a Close has returned: its session is Closed and out of the registry
\* while another session is Active and registered
C21_Witness ==
    /\ res.path = "close" /\ smMu.w = 0
    /\ \E a \in 1..Len(heap) : heap[a].closed /\ ~Registered(a)
    /\ \E a \in 1..Len(heap) : ~heap[a].closed /\ Registered(a)

\* the caller whose handler takes this step
Acts(p) == pc'[p] # pc[p]

\* C22: a step changes a session object only when it is a step of an
\* operation addressed to that session's id, and removes an id from the
\* registry only when it is a step of an operation addressed to that id, so
\* an operation on session i leaves history, lastResponse, counters,
\* settings and lifecycle of every other session as they were; the request
\* an Ask on session i builds holds the history and settings of session i.
C22_SessionIsolation ==
    [][/\ \A a \in 1..Len(heap) :
             heap'[a] # heap[a] =>
                \E p \in Procs : Acts(p) /\ loc[p].sess = a /\ loc[p].id = heap[a].ID
       /\ \A id \in DOMAIN sessions :
             (id \notin DOMAIN sessions' \/ sessions'[id] # sessions[id]) =>
                \E p \in Procs : Acts(p) /\ loc[p].id = id /\ loc[p].file = "ctl"
       /\ \A p \in Procs :
             (pc[p] = "ask_snap" /\ pc'[p] = "ask_call") =>
                \E a \in 1..Len(heap) :
                   /\ heap[a].ID = loc[p].id
                   /\ loc'[p].req.Messages = heap[a].messages
                   /\ loc'[p].req.Model = heap[a].model
                   /\ loc'[p].req.Temperature = heap[a].temperature
                   /\ loc'[p].req.SystemPrompt = heap[a].systemPrompt
                   /\ loc'[p].req.ThinkingTokens = heap[a].thinkingTokens
                   /\ loc'[p].req.Prefill = heap[a].prefill]_vars

\* a settings write to session 1 has returned and session 0, registered
\* beside it, still has the settings it was created with
C22_Witness ==
    /\ res.file \in SettingsFiles /\ res.mode = "write" /\ res.err = "nil" /\ res.id = 1
    /\ 0 \in DOMAIN sessions /\ 1 \in DOMAIN sessions
    /\ DefaultSettings(heap[sessions[0]])
    /\ ~DefaultSettings(heap[sessions[1]])

\* C23: the request of an Ask holds the history and the five settings that
\* the session has in the one state in which the snapshot is taken, after
\* the lookup and with no writer inside the session's lock; from then until
\* the backend call has returned no step changes the request, whatever is
\* written to the session meanwhile.
C23_RequestIsOneSnapshot ==
    [][\A p \in Procs :
          /\ (pc[p] = "ask_snap" /\ pc'[p] = "ask_call") =>
                LET s == heap[loc[p].sess]
                IN  /\ sessMu[loc[p].sess].w = 0
                    /\ loc'[p].req =
                          [Messages |-> s.messages, Prompt |-> TrimSpace(loc[p].buf),
                           Model |-> s.model, Temperature |-> s.temperature,
                           SystemPrompt |-> s.systemPrompt,
                           ThinkingTokens |-> s.thinkingTokens, Prefill |-> s.prefill]
          /\ pc[p] = "ask_call" => loc'[p].req = loc[p].req]_vars

\* an Ask is in its backend call with the empty history it took while the
\* session has meanwhile received the exchange of another Ask
C23_Witness ==
    \E p \in Procs :
        /\ pc[p] = "ask_call"
        /\ loc[p].req.Messages = <<>>
        /\ Len(heap[loc[p].sess].messages) = 2

\* a history of adjacent pairs: even length, user at the odd positions and
\* assistant at the even ones
IsPairs(msgs) ==
    /\ Len(msgs) % 2 = 0
    /\ \A i \in 1..Len(msgs) : msgs[i].Role = (IF i % 2 = 1 THEN "user" ELSE "assistant")

\* C24: in every reachable state the history of every session, which a read
\* of context returns as it is, is a sequence of adjacent (user, assistant)
\* pairs.
C24_HistoryIsPairs ==
    \A a \in 1..Len(heap) : IsPairs(heap[a].messages)

\* a failure text of Ask: "Error: " and the error
IsFailureText(s) == IsPrefix(ErrorPrefix, s)

\* no caller is inside an Ask on the session object at address a
NoAskInProgress(a) == \A p \in Procs : ~(pc[p] \in AskPcs /\ loc[p].sess = a)

\* the content of the last assistant entry of a history that has one
LastAssistant(msgs) ==
    msgs[CHOOSE i \in 1..Len(msgs) :
            /\ msgs[i].Role = "assistant"
            /\ \A j \in (i + 1)..Len(msgs) : msgs[j].Role # "assistant"].Content

\* C25: whenever no Ask on a session is in progress, a non-empty history and
\* a lastResponse that is no failure text mean lastResponse is the content of
\* the last assistant entry, and an empty history means totalTokens is 0
\* and lastResponse is empty or a failure text.
C25_HistoryAgreesWithLastResponse ==
    \A a \in 1..Len(heap) :
        NoAskInProgress(a) =>
            LET s == heap[a]
            IN  /\ (s.messages # <<>> /\ ~IsFailureText(s.lastResponse)) =>
                      /\ \E i \in 1..Len(s.messages) : s.messages[i].Role = "assistant"
                      /\ s.lastResponse = LastAssistant(s.messages)
                /\ s.messages = <<>> =>
                      /\ s.totalTokens = 0
                      /\ s.lastResponse = <<>> \/ IsFailureText(s.lastResponse)

\* C26: in every reachable state the thinking budget stored in every
\* session is -1, 0 or a positive cap.
C26_ThinkingBudgetIsTriState ==
    \A a \in 1..Len(heap) : heap[a].thinkingTokens >= -1

\* where a handler takes the session's lock for reading, and for writing
ReaderPcs == {"read", "stat", "ask_closed", "ask_snap"}
WriterPcs == {"write", "reset_body", "close_mark", "ask_fail", "ask_user", "ask_asst", "ask_tok", "ask_last"}

\* caller p is at a lock that caller q holds
WaitsFor(p, q) ==
    \/ pc[p] \in WriterPcs /\ HoldsSess(q, loc[p].sess)
    \/ pc[p] \in ReaderPcs /\ sessMu[loc[p].sess].w = q

RECURSIVE WaitsForChain(_, _, _)
WaitsForChain(p, q, n) ==
    \/ WaitsFor(p, q)
    \/ n > 0 /\ \E r \in Procs : WaitsFor(p, r) /\ WaitsForChain(r, q, n - 1)

\* C27: in no reachable state do callers wait for each other's locks in a
\* cycle; the registry lock is held from one step to the next only by a
\* Close between its lookup and its delete, a caller holding it holds no
\* session lock, nobody holds two session locks, and no step takes the
\* registry lock while its caller holds a session lock; and, the scheduler
\* being fair and every backend call returning, every operation that has
\* begun returns.
C27_DeadlockFree ==
    /\ [](\A p \in Procs :
            /\ ~WaitsForChain(p, p, NumProcs)
            /\ HoldsSm(p) => pc[p] \in {"close_mark", "close_del"}
            /\ HoldsSm(p) => \A a \in 1..Len(heap) : ~HoldsSess(p, a)
            /\ Cardinality({a \in 1..Len(heap) : HoldsSess(p, a)}) <= 1)
    /\ [][\A p \in Procs :
            (~HoldsSm(p) /\ (smMu'.w = p \/ p \in smMu'.r)) =>
               \A a \in 1..Len(heap) : ~HoldsSess(p, a)]_vars
    /\ \A p \in Procs : (pc[p] # "idle") ~> (pc[p] = "idle")

\* a Close holds the registry lock and is about to take the lock of a
\* session on which another caller's Ask is about to append
C27_Witness ==
    \E p, q \in Procs :
        /\ pc[p] = "close_mark" /\ smMu.w = p
        /\ pc[q] \in AskPostPcs /\ loc[q].sess = loc[p].sess

=============================================================================
